---- MODULE Spec2Model ----
(***************************************************************************)
(* Model of libcacard's NSS card emulator (src/src/vcard_emul_nss.c).      *)
(*                                                                         *)
(* The cryptographic provider (NSS / PKCS #11) is external: every answer   *)
(* it gives (does a mechanism exist, does a primitive succeed, which bytes *)
(* does it return, which error does it report) is a nondeterministic       *)
(* choice from a small set.  The emulator's own code is translated         *)
(* statement by statement.                                                 *)
(*                                                                         *)
(* Four specifications share the variables:                                *)
(*   SpecRsa      the RSA operation emulator (vcard_emul_rsa_op)           *)
(*   SpecLogin    the login/session functions (vcard_emul_login, ...)      *)
(*   SpecMirror   the card mirror (vcard_emul_mirror_card)                 *)
(*   SpecHotplug  initialization, the hot-plug event loop and forced       *)
(*                presence (vcard_emul_init, vcard_emul_event_thread,      *)
(*                vcard_emul_force_card_remove / _insert)                  *)
(***************************************************************************)
EXTENDS Integers, Sequences, FiniteSets, TLC

VARIABLES
    nss_emul_init,  \* static int nss_emul_init
    failedX509,     \* key->failedX509 of the key handle
    buffer,         \* the caller's buffer (mutated in place by rsa_op)
    rsa_ret,        \* status returned by the last vcard_emul_rsa_op call
    rsa_calls,      \* provider primitives the last rsa_op call invoked
    rsa_payload,    \* <<p>> when the last call's PK11_PrivDecryptPKCS1
                    \* recovered the bytes p, <<>> otherwise
    rsa_in,         \* the caller's buffer as it was when the last call began
    rsa_prev,       \* key->failedX509 as it was when the last call began
    rsa_trace,      \* what the provider did in the last call: the primitives
                    \* that failed, the error code mapped into the status,
                    \* the digest handed to PK11_Sign, the block it produced
    loggedIn,       \* provider session state of the slot (PK11_IsLoggedIn)
    needLogin,      \* PK11_NeedLogin(slot)
    pin,            \* the caller's pin buffer handed to vcard_emul_login
    pin_string,     \* login's heap copy of the pin, as left at g_free
    submitted,      \* pin_string as handed to PK11_Authenticate
    login_ret,      \* status returned by the last vcard_emul_login call
    auth_rv,        \* what PK11_Authenticate answered in the last login
    ili_ret,        \* value returned by the last vcard_emul_is_logged_in
    ili_prev,       \* value returned by the vcard_emul_is_logged_in call
                    \* directly before the last one, if the two were adjacent
    prov_calls,     \* provider session calls made by the last session op
    li_before,      \* loggedIn as it was when the last session op began
    last_op,        \* name of the last session operation
    slot_objects,   \* the certificate objects on the slot being mirrored
    enum_order,     \* order in which the provider enumerated them last
    mirrored,       \* what the last vcard_emul_mirror_card call built
    vcard_emul_init_called, \* static int vcard_emul_init_called
    default_card_type,      \* static VCardEmulType default_card_type
    default_type_params,    \* static const char *default_type_params
    readers,        \* the reader registry: each reader's VReaderEmul fields
                    \* and the card the registry holds for it
    next_card,      \* number of card objects built so far
    thread_running, \* the module's vcard_emul_event_thread is in its loop
    registry_log,   \* registry and card-building calls of the last operation
    hp_last,        \* the last operation: its inputs, result and the reader
                    \* as it was before
    hp_prev         \* summary of the operation before the last one

rsaVars == <<failedX509, buffer, rsa_ret, rsa_calls, rsa_payload, rsa_in,
             rsa_prev, rsa_trace>>
loginVars == <<loggedIn, needLogin, pin, pin_string, submitted, login_ret,
               auth_rv, ili_ret, ili_prev, prov_calls, li_before, last_op>>
mirrorVars == <<slot_objects, enum_order, mirrored>>
hotVars == <<vcard_emul_init_called, default_card_type, default_type_params,
             readers, next_card, thread_running, registry_log, hp_last,
             hp_prev>>
vars == <<nss_emul_init, rsaVars, loginVars, mirrorVars, hotVars>>

\* vcard_emul_mirror_card has not been called
NotMirrored == [called |-> FALSE]

MirrorIdle ==
    /\ slot_objects = <<>>
    /\ enum_order = <<>>
    /\ mirrored = NotMirrored

VCARD_EMUL_NONE == "VCARD_EMUL_NONE"
VCARD_EMUL_CAC == "VCARD_EMUL_CAC"
CardTypes == {VCARD_EMUL_NONE, VCARD_EMUL_CAC}

\* the null pointer
NULL == [null |-> TRUE]

\* no operation on the readers has run
NoOp == [op |-> "none"]

\* the statics and the registry before vcard_emul_init
HotIdle ==
    /\ vcard_emul_init_called = FALSE
    /\ default_card_type = VCARD_EMUL_NONE
    /\ default_type_params = ""
    /\ readers = <<>>
    /\ next_card = 0
    /\ thread_running = FALSE
    /\ registry_log = <<>>
    /\ hp_last = NoOp
    /\ hp_prev = NoOp

----------------------------------------------------------------------------
(* Bounds of the model *)

\* PK11_SignatureLen(priv_key): the key's signature length in bytes
SigLen == 5
\* longest pin drawn from PinBytes
MaxPinLen == 3
\* most certificate objects a mirrored slot holds
MaxObjs == 3

----------------------------------------------------------------------------
(* Constants of the program *)

VCardEmulUnknown == -1
VCardEmulFalse == 0
VCardEmulTrue == 1

\* the ISO 7816 status words of card_7816t.h (0x9000, 0x6985, 0x6984,
\* 0x6581, 0x6500, 0x6f00)
VCARD7816_STATUS_SUCCESS == 36864
VCARD7816_STATUS_ERROR_CONDITION_NOT_SATISFIED == 27013
VCARD7816_STATUS_ERROR_DATA_INVALID == 27012
VCARD7816_STATUS_EXC_ERROR_MEMORY_FAILURE == 25985
VCARD7816_STATUS_EXC_ERROR_CHANGE == 25856
VCARD7816_STATUS_ERROR_GENERAL == 28416

\* rsa_ret, login_ret and ili_ret hold <<v>> once a call has returned v
NoCall == <<>>

Returned(v) == <<v>>

----------------------------------------------------------------------------
(* Byte buffers; C indices are 0-based, sequences 1-based *)

At(buf, i) == buf[i + 1]

SetByte(buf, i, v) == [buf EXCEPT ![i + 1] = v]

\* memset(&buf[off], v, n)
MemSet(buf, off, v, n) ==
    [k \in 1..Len(buf) |-> IF k - 1 >= off /\ k - 1 < off + n THEN v ELSE buf[k]]

\* memcpy(&buf[off], src, n)
MemCpy(buf, off, src, n) ==
    [k \in 1..Len(buf) |->
        IF k - 1 >= off /\ k - 1 < off + n THEN src[k - off] ELSE buf[k]]

SeqsOfLen(S, n) == [1..n -> S]

----------------------------------------------------------------------------
(* The provider, as seen from vcard_emul_rsa_op *)

\* error codes PORT_GetError() can report; the last one is not in the table
ProviderErrors ==
    {"SEC_ERROR_TOKEN_NOT_LOGGED_IN", "SEC_ERROR_BAD_DATA",
     "SEC_ERROR_OUTPUT_LEN", "SEC_ERROR_INPUT_LEN", "SEC_ERROR_INVALID_ARGS",
     "SEC_ERROR_INVALID_ALGORITHM", "SEC_ERROR_NO_KEY",
     "SEC_ERROR_INVALID_KEY", "SEC_ERROR_DECRYPTION_DISALLOWED",
     "SEC_ERROR_PKCS11_GENERAL_ERROR", "SEC_ERROR_NO_MEMORY",
     "SEC_ERROR_LIBRARY_FAILURE"}

\* a block of n bytes that has the PKCS #1 signature shape 00 01 FF.. 00 D
SignShapedBlock(n) ==
    [k \in 1..n |-> IF k = 1 THEN 0
                    ELSE IF k = 2 THEN 1
                    ELSE IF k = n THEN 119
                    ELSE IF k = n - 1 THEN 0
                    ELSE 255]

\* the n-byte results PK11_PrivDecryptRaw and PK11_Sign can write to bp
ProviderBlocks(n) == {[k \in 1..n |-> 160 + k], SignShapedBlock(n)}

\* the payloads PK11_PrivDecryptPKCS1 can recover: any length up to maxOutLen
ProviderPayloads(maxOutLen) ==
    UNION {{[k \in 1..r |-> 64 + k], [k \in 1..r |-> (k - 1) % 2]} :
               r \in 0..maxOutLen}

----------------------------------------------------------------------------
(* vcard_emul_map_error *)

\* a faulty vcard_emul_map_error: a code outside the table maps to Success
vcard_emul_map_error_m(error) ==
    CASE error = "SEC_ERROR_TOKEN_NOT_LOGGED_IN" ->
             VCARD7816_STATUS_ERROR_CONDITION_NOT_SATISFIED
      [] error \in {"SEC_ERROR_BAD_DATA", "SEC_ERROR_OUTPUT_LEN",
                    "SEC_ERROR_INPUT_LEN", "SEC_ERROR_INVALID_ARGS",
                    "SEC_ERROR_INVALID_ALGORITHM", "SEC_ERROR_NO_KEY",
                    "SEC_ERROR_INVALID_KEY", "SEC_ERROR_DECRYPTION_DISALLOWED",
                    "SEC_ERROR_PKCS11_GENERAL_ERROR"} ->
             VCARD7816_STATUS_ERROR_DATA_INVALID
      [] error = "SEC_ERROR_NO_MEMORY" ->
             VCARD7816_STATUS_EXC_ERROR_MEMORY_FAILURE
      [] OTHER -> VCARD7816_STATUS_SUCCESS
\* lines 192-215
vcard_emul_map_error(error) ==
    CASE error = "SEC_ERROR_TOKEN_NOT_LOGGED_IN" ->
             VCARD7816_STATUS_ERROR_CONDITION_NOT_SATISFIED
      [] error \in {"SEC_ERROR_BAD_DATA", "SEC_ERROR_OUTPUT_LEN",
                    "SEC_ERROR_INPUT_LEN", "SEC_ERROR_INVALID_ARGS",
                    "SEC_ERROR_INVALID_ALGORITHM", "SEC_ERROR_NO_KEY",
                    "SEC_ERROR_INVALID_KEY", "SEC_ERROR_DECRYPTION_DISALLOWED",
                    "SEC_ERROR_PKCS11_GENERAL_ERROR"} ->
             VCARD7816_STATUS_ERROR_DATA_INVALID
      [] error = "SEC_ERROR_NO_MEMORY" ->
             VCARD7816_STATUS_EXC_ERROR_MEMORY_FAILURE
      [] OTHER -> VCARD7816_STATUS_EXC_ERROR_CHANGE

----------------------------------------------------------------------------
(* vcard_emul_rsa_op, piece by piece *)

\* an outcome of one call: the status, the caller's buffer and the key's
\* flag afterwards, the provider primitives invoked, the PKCS #1 payload
RsaResult(ret, buf, f, calls, payload) ==
    [ret |-> ret, buffer |-> buf, failedX509 |-> f, calls |-> calls,
     payload |-> payload, failed |-> <<>>, error |-> "none", hash |-> <<>>,
     out |-> <<>>]

\* a faulty RsaError: the failed call marks the key RequiresPaddingEmulation
RsaError_m(e, buf, f, calls, name) ==
    [RsaResult(vcard_emul_map_error(e), buf, VCardEmulTrue, calls, <<>>)
        EXCEPT !.failed = <<name>>, !.error = e]
\* ret = vcard_emul_map_error(PORT_GetError()); goto cleanup; after the
\* primitive name failed with the error code e
RsaError(e, buf, f, calls, name) ==
    [RsaResult(vcard_emul_map_error(e), buf, f, calls, <<>>)
        EXCEPT !.failed = <<name>>, !.error = e]

\* if ((unsigned)buffer_size != signature_len)
SizeMismatch_m(buffer_size, signature_len) == buffer_size > signature_len
SizeMismatch(buffer_size, signature_len) == buffer_size # signature_len

\* if (key->failedX509 != VCardEmulTrue && PK11_DoesMechanism(slot, CKM_RSA_X_509))
RawAllowed_m(f, mech) == mech
RawAllowed(f, mech) == f # VCardEmulTrue /\ mech

\* for (i = 2; i < buffer_size; i++) if (buffer[i] != 0xff) break;
RECURSIVE SkipSignPad(_, _)
SkipSignPad(buf, i) ==
    IF i < Len(buf) /\ At(buf, i) = 255 THEN SkipSignPad(buf, i + 1) ELSE i

\* a faulty IsPkcs1Signature: the byte after the pad is not looked at
IsPkcs1Signature_m(buf) ==
    /\ At(buf, 0) = 0
    /\ At(buf, 1) = 1
    /\ LET i == SkipSignPad(buf, 2) IN i < Len(buf)
\* buffer[0] == 0 && buffer[1] == 1, then the pad, then buffer[i] == 0
IsPkcs1Signature(buf) ==
    /\ At(buf, 0) = 0
    /\ At(buf, 1) = 1
    /\ LET i == SkipSignPad(buf, 2) IN i < Len(buf) /\ At(buf, i) = 0

\* hash.data = &buffer[i + 1]; hash.len = buffer_size - (i + 1)
SignHash(buf) ==
    LET i == SkipSignPad(buf, 2) + 1 IN SubSeq(buf, i + 1, Len(buf))

\* if (pad_len < 4)
PadTooShort_m(pad_len) == pad_len < 3
PadTooShort(pad_len) == pad_len < 4

\* package the decrypted payload as 0 || 2 || pad || 0 || data
PackagePkcs1_m(buf, bp, signature_len, buffer_size) ==
    LET pad0 == buffer_size - signature_len
        b1 == SetByte(buf, 0, 0)
        b2 == SetByte(b1, 1, 2)
        pad1 == pad0 - 3
        b3 == MemSet(b2, 2, 3, pad1)
        pad2 == pad1 + 2
        b4 == SetByte(b3, pad2, 3)
        pad3 == pad2 + 1
    IN  MemCpy(b4, pad3, bp, signature_len)
PackagePkcs1(buf, bp, signature_len, buffer_size) ==
    LET pad0 == buffer_size - signature_len
        b1 == SetByte(buf, 0, 0)
        b2 == SetByte(b1, 1, 2)
        pad1 == pad0 - 3
        b3 == MemSet(b2, 2, 3, pad1)
        pad2 == pad1 + 2
        b4 == SetByte(b3, pad2, 0)
        pad3 == pad2 + 1
    IN  MemCpy(b4, pad3, bp, signature_len)

\* lines 354-389: PK11_PrivDecryptPKCS1 and the repackaging
RsaDecryptPath(f, buf, calls) ==
    LET cs == Append(calls, "PK11_PrivDecryptPKCS1") IN
    {RsaError(e, buf, f, cs, "PK11_PrivDecryptPKCS1") : e \in ProviderErrors}
    \cup
    {IF PadTooShort(Len(buf) - Len(p))
        THEN RsaResult(VCARD7816_STATUS_ERROR_GENERAL, buf, f, cs, <<p>>)
        ELSE RsaResult(VCARD7816_STATUS_SUCCESS,
                       PackagePkcs1(buf, p, Len(p), Len(buf)),
                       VCardEmulTrue, cs, <<p>>) :
        p \in ProviderPayloads(Len(buf))}

\* lines 327-348: PK11_Sign over the digest
RsaSignPath(f, buf, calls) ==
    LET cs == Append(calls, "PK11_Sign")
        hash == <<SignHash(buf)>>
    IN
    {[RsaError(e, buf, f, cs, "PK11_Sign") EXCEPT !.hash = hash] :
         e \in ProviderErrors}
    \cup
    {[RsaResult(VCARD7816_STATUS_SUCCESS, MemCpy(buf, 0, sig, Len(sig)),
                VCardEmulTrue, cs, <<>>)
         EXCEPT !.hash = hash, !.out = <<sig>>] : sig \in ProviderBlocks(SigLen)}

\* lines 308-389: emulate CKM_RSA_X_509 with CKM_RSA_PKCS
RsaEmulatePath(f, buf, calls) ==
    IF IsPkcs1Signature(buf)
        THEN RsaSignPath(f, buf, calls)
        ELSE RsaDecryptPath(f, buf, calls)

\* a faulty RawFailureFinal: a failed raw attempt always ends the call
RawFailureFinal_m(f) == TRUE
\* line 301: if (key->failedX509 == VCardEmulFalse)
RawFailureFinal(f) == f = VCardEmulFalse

\* lines 285-307: the raw attempt
RsaRawPath(f, buf, calls) ==
    LET cs == Append(calls, "PK11_PrivDecryptRaw") IN
    {RsaResult(VCARD7816_STATUS_SUCCESS, MemCpy(buf, 0, out, Len(out)),
               VCardEmulFalse, cs, <<>>) : out \in ProviderBlocks(SigLen)}
    \cup
    (IF RawFailureFinal(f)
        THEN {RsaError(e, buf, f, cs, "PK11_PrivDecryptRaw") :
                  e \in ProviderErrors}
        ELSE {[x EXCEPT !.failed = <<"PK11_PrivDecryptRaw">> \o @] :
                  x \in RsaEmulatePath(f, buf, cs)})

\* a faulty RsaCleanup: the key is released on success only
RsaCleanup_m(res) ==
    IF res.ret = VCARD7816_STATUS_SUCCESS
        THEN [res EXCEPT !.calls = Append(@, "SECKEY_DestroyPrivateKey")]
        ELSE res
\* lines 390-395, the label cleanup: SECKEY_DestroyPrivateKey(priv_key)
RsaCleanup(res) ==
    [res EXCEPT !.calls = Append(@, "SECKEY_DestroyPrivateKey")]

\* the outcomes of vcard_emul_rsa_op(card, key, buffer, buffer_size)
vcard_emul_rsa_op(init, keyIsNull, f, buf) ==
    LET cns == VCARD7816_STATUS_ERROR_CONDITION_NOT_SATISFIED IN
    IF ~init \/ keyIsNull
        THEN {RsaResult(cns, buf, f, <<>>, <<>>)}
    ELSE
        \* priv_key = vcard_emul_get_nss_key(key); NULL when not logged in
        LET c1 == <<"PK11_FindPrivateKeyFromCert">>
            c2 == Append(c1, "PK11_SignatureLen")
        IN
        {[RsaResult(cns, buf, f, c1, <<>>)
             EXCEPT !.failed = <<"PK11_FindPrivateKeyFromCert">>]}
        \cup
        {RsaCleanup(res) : res \in
            (IF SizeMismatch(Len(buf), SigLen)
                THEN {RsaResult(VCARD7816_STATUS_ERROR_DATA_INVALID, buf, f,
                                c2, <<>>)}
                ELSE UNION {IF RawAllowed(f, mech)
                                THEN RsaRawPath(f, buf, c2)
                                ELSE RsaEmulatePath(f, buf, c2) :
                            mech \in BOOLEAN})}

----------------------------------------------------------------------------
(* Specification of the RSA operation emulator *)

\* no call made yet
NoTrace == [failed |-> <<>>, error |-> "none", hash |-> <<>>, out |-> <<>>]

RsaByteVals == {0, 1, 2, 255}

\* the caller's buffers: every content of the key's length and of one byte
\* less, and some one byte longer
RsaBuffers ==
    SeqsOfLen(RsaByteVals, SigLen) \cup SeqsOfLen(RsaByteVals, SigLen - 1)
    \cup {[k \in 1..(SigLen + 1) |-> b] : b \in RsaByteVals}

LoginIdle ==
    /\ loggedIn = FALSE
    /\ needLogin = TRUE
    /\ pin = <<>>
    /\ pin_string = <<>>
    /\ submitted = <<>>
    /\ login_ret = NoCall
    /\ auth_rv = "none"
    /\ ili_ret = NoCall
    /\ ili_prev = NoCall
    /\ prov_calls = <<>>
    /\ li_before = FALSE
    /\ last_op = "none"

InitRsa ==
    /\ nss_emul_init \in BOOLEAN
    /\ failedX509 = VCardEmulUnknown
    /\ buffer \in RsaBuffers
    /\ rsa_ret = NoCall
    /\ rsa_calls = <<>>
    /\ rsa_payload = <<>>
    /\ rsa_in = <<>>
    /\ rsa_prev = VCardEmulUnknown
    /\ rsa_trace = NoTrace
    /\ LoginIdle
    /\ MirrorIdle
    /\ HotIdle

RsaOp(keyIsNull) ==
    /\ \E res \in vcard_emul_rsa_op(nss_emul_init, keyIsNull, failedX509, buffer) :
        /\ buffer' = res.buffer
        /\ failedX509' = IF keyIsNull THEN failedX509 ELSE res.failedX509
        /\ rsa_ret' = Returned(res.ret)
        /\ rsa_calls' = res.calls
        /\ rsa_payload' = res.payload
        /\ rsa_trace' = [failed |-> res.failed, error |-> res.error,
                         hash |-> res.hash, out |-> res.out]
    /\ rsa_in' = buffer
    /\ rsa_prev' = failedX509
    /\ UNCHANGED <<nss_emul_init, loginVars, mirrorVars, hotVars>>

RsaOpOnKey == RsaOp(FALSE)

RsaOpNullKey == RsaOp(TRUE)

NextRsa == RsaOpOnKey \/ RsaOpNullKey

SpecRsa == InitRsa /\ [][NextRsa]_vars

----------------------------------------------------------------------------
(* Login functions.  The session lives in the provider: PK11_IsLoggedIn    *)
(* reads it, PK11_Logout ends it, an accepted PK11_Authenticate starts it. *)
(* PK11_Logout is taken to end the session whenever it is called (its      *)
(* SECStatus is ignored by the code).                                      *)

\* pin_string = g_malloc(pin_len+1); memcpy(pin_string, pin, pin_len);
\* pin_string[pin_len] = 0;
CopyPin(p) == Append(p, 0)

\* for (i = pin_len-1; i >= 0 && (pin_string[i] == 0xff); i--) pin_string[i] = 0;
StripPin_m(ps, i) ==
    [k \in 1..Len(ps) |-> IF k <= i + 1 /\ ps[k] = 255 THEN 0 ELSE ps[k]]
RECURSIVE StripPin(_, _)
StripPin(ps, i) ==
    IF i >= 0 /\ At(ps, i) = 255 THEN StripPin(SetByte(ps, i, 0), i - 1) ELSE ps

\* memset(pin_string, 0, pin_len);
ZeroPin_m(ps, pin_len) == MemSet(ps, 0, 0, pin_len - 1)
ZeroPin(ps, pin_len) == MemSet(ps, 0, 0, pin_len)

\* if (PK11_IsLoggedIn(slot, NULL)) PK11_Logout(slot);
LogoutNeeded_m(isLoggedIn) == TRUE
LogoutNeeded(isLoggedIn) == isLoggedIn

\* vcard_emul_logout(card): the session afterwards and the provider calls
vcard_emul_logout(init, li) ==
    IF ~init
        THEN [loggedIn |-> li, calls |-> <<>>]
    ELSE IF LogoutNeeded(li)
        THEN [loggedIn |-> FALSE, calls |-> <<"PK11_IsLoggedIn", "PK11_Logout">>]
    ELSE [loggedIn |-> li, calls |-> <<"PK11_IsLoggedIn">>]

\* the vcard_emul_logout(card) call inside vcard_emul_login
LoginForcedLogout_m(init, li) == [loggedIn |-> li, calls |-> <<>>]
LoginForcedLogout(init, li) == vcard_emul_logout(init, li)

\* vcard_emul_login(card, pin, pin_len); accept is the provider's verdict
vcard_emul_login(init, li, p, accept) ==
    IF ~init
        THEN [ret |-> VCARD7816_STATUS_ERROR_CONDITION_NOT_SATISFIED,
              loggedIn |-> li, pin_string |-> <<>>, submitted |-> <<>>,
              auth_rv |-> "none", calls |-> <<>>]
    ELSE
        LET pin_len == Len(p)
            ps == StripPin(CopyPin(p), pin_len - 1)
            lo == LoginForcedLogout(init, li)
        IN  [ret |-> IF accept
                        THEN VCARD7816_STATUS_SUCCESS
                        ELSE VCARD7816_STATUS_ERROR_CONDITION_NOT_SATISFIED,
             loggedIn |-> IF accept THEN TRUE ELSE lo.loggedIn,
             pin_string |-> ZeroPin(ps, pin_len),
             submitted |-> ps,
             auth_rv |-> IF accept THEN "SECSuccess" ELSE "SECFailure",
             calls |-> Append(lo.calls, "PK11_Authenticate")]

\* vcard_emul_is_logged_in(card)
vcard_emul_is_logged_in(init, need, li) ==
    IF ~init THEN VCARD7816_STATUS_ERROR_CONDITION_NOT_SATISFIED
    ELSE IF ~need THEN 1
    ELSE IF li THEN 1 ELSE 0

\* the provider queries vcard_emul_is_logged_in makes
IsLoggedInCalls(init, need) ==
    IF ~init THEN <<>>
    ELSE IF ~need THEN <<"PK11_NeedLogin">>
    ELSE <<"PK11_NeedLogin", "PK11_IsLoggedIn">>

----------------------------------------------------------------------------
(* Specification of the login functions *)

PinBytes == {0, 49, 255}

\* the CAC-expanded pin "1234\xFF\xFF"
ScenarioPin == <<49, 50, 51, 52, 255, 255>>

Pins == UNION {SeqsOfLen(PinBytes, n) : n \in 0..MaxPinLen} \cup {ScenarioPin}

RsaIdle ==
    /\ failedX509 = VCardEmulUnknown
    /\ buffer = <<>>
    /\ rsa_ret = NoCall
    /\ rsa_calls = <<>>
    /\ rsa_payload = <<>>
    /\ rsa_in = <<>>
    /\ rsa_prev = VCardEmulUnknown
    /\ rsa_trace = NoTrace

InitLogin ==
    /\ nss_emul_init \in BOOLEAN
    /\ loggedIn \in BOOLEAN
    /\ needLogin \in BOOLEAN
    /\ pin = <<>>
    /\ pin_string = <<>>
    /\ submitted = <<>>
    /\ login_ret = NoCall
    /\ auth_rv = "none"
    /\ ili_ret = NoCall
    /\ ili_prev = NoCall
    /\ prov_calls = <<>>
    /\ li_before = loggedIn
    /\ last_op = "none"
    /\ RsaIdle
    /\ MirrorIdle
    /\ HotIdle

Login ==
    \E p \in Pins, accept \in BOOLEAN :
        LET res == vcard_emul_login(nss_emul_init, loggedIn, p, accept) IN
        /\ pin' = p
        /\ pin_string' = res.pin_string
        /\ submitted' = res.submitted
        /\ login_ret' = Returned(res.ret)
        /\ auth_rv' = res.auth_rv
        /\ loggedIn' = res.loggedIn
        /\ prov_calls' = res.calls
        /\ li_before' = loggedIn
        /\ ili_prev' = NoCall
        /\ last_op' = "login"
        /\ UNCHANGED <<nss_emul_init, needLogin, ili_ret, rsaVars, mirrorVars, hotVars>>

IsLoggedIn ==
    /\ ili_ret' = Returned(vcard_emul_is_logged_in(nss_emul_init, needLogin,
                                                 loggedIn))
    /\ ili_prev' = IF last_op = "is_logged_in" THEN ili_ret ELSE NoCall
    /\ prov_calls' = IsLoggedInCalls(nss_emul_init, needLogin)
    /\ li_before' = loggedIn
    /\ last_op' = "is_logged_in"
    /\ UNCHANGED <<nss_emul_init, loggedIn, needLogin, pin, pin_string,
                   submitted, login_ret, auth_rv, rsaVars, mirrorVars, hotVars>>

Logout ==
    LET res == vcard_emul_logout(nss_emul_init, loggedIn) IN
    /\ loggedIn' = res.loggedIn
    /\ prov_calls' = res.calls
    /\ li_before' = loggedIn
    /\ ili_prev' = NoCall
    /\ last_op' = "logout"
    /\ UNCHANGED <<nss_emul_init, needLogin, pin, pin_string, submitted,
                   login_ret, auth_rv, ili_ret, rsaVars, mirrorVars, hotVars>>

\* vcard_emul_reset(card, power): the power value is not looked at
Reset ==
    \E power \in {"VCARD_POWER_ON", "VCARD_POWER_OFF"} :
        LET res == vcard_emul_logout(nss_emul_init, loggedIn) IN
        /\ loggedIn' = res.loggedIn
        /\ prov_calls' = res.calls
        /\ li_before' = loggedIn
        /\ ili_prev' = NoCall
        /\ last_op' = "reset"
        /\ UNCHANGED <<nss_emul_init, needLogin, pin, pin_string, submitted,
                       login_ret, auth_rv, ili_ret, rsaVars, mirrorVars, hotVars>>

NextLogin == Login \/ IsLoggedIn \/ Logout \/ Reset

SpecLogin == InitLogin /\ [][NextLogin]_vars

----------------------------------------------------------------------------
(* The card mirror: vcard_emul_mirror_card and vcard_emul_make_card *)

\* SECComparison, the result of SECITEM_CompareItem
SECLessThan == -1
SECEqual == 0
SECGreaterThan == 1

\* memcmp over the first m bytes of a and b, starting at byte i
RECURSIVE PORT_Memcmp(_, _, _, _)
PORT_Memcmp(a, b, i, m) ==
    IF i > m THEN 0
    ELSE IF a[i] # b[i] THEN a[i] - b[i]
    ELSE PORT_Memcmp(a, b, i + 1, m)

Min(x, y) == IF x < y THEN x ELSE y

\* binary comparison of two items: by content over the common length, then
\* by length; an empty item is less than every non-empty one
SECITEM_CompareItem(a, b) ==
    IF Len(a) = 0 THEN (IF Len(b) = 0 THEN SECEqual ELSE SECLessThan)
    ELSE IF Len(b) = 0 THEN SECGreaterThan
    ELSE LET rv == PORT_Memcmp(a, b, 1, Min(Len(a), Len(b)))
         IN  IF rv < 0 THEN SECLessThan
             ELSE IF rv > 0 THEN SECGreaterThan
             ELSE IF Len(a) < Len(b) THEN SECLessThan
             ELSE IF Len(a) = Len(b) THEN SECEqual
             ELSE SECGreaterThan

\* a faulty InsertsBefore: the comparison turned round
InsertsBefore_m(id, other) == SECITEM_CompareItem(id, other) > SECEqual
\* line 774: the new certificate goes in front of the entry `other`
InsertsBefore(id, other) == SECITEM_CompareItem(id, other) < SECEqual

\* lines 773-782: the index the search loop stops at (arrays count from 1)
InsertPos(id, ids) ==
    LET stops == {i \in 1..Len(ids) : InsertsBefore(id, ids[i])}
    IN  IF stops = {} THEN Len(ids) + 1
        ELSE CHOOSE i \in stops : \A j \in stops : i <= j

\* a faulty InsertAt: the entries from i on are not moved up
InsertAt_m(arr, i, x) ==
    IF i > Len(arr) THEN Append(arr, x) ELSE [arr EXCEPT ![i] = x]
\* memmove of the entries from i one place up, then the store into entry i
InsertAt(arr, i, x) ==
    SubSeq(arr, 1, i - 1) \o <<x>> \o SubSeq(arr, i, Len(arr))

vcard_emul_make_key(cert) == [cert |-> cert, failedX509 |-> VCardEmulUnknown]

\* the four parallel arrays, empty (cert_count = 0)
NoArrays == [certs |-> <<>>, cert_len |-> <<>>, keys |-> <<>>, ids |-> <<>>]

\* a faulty MirrorObject: an unreadable object empties the arrays
MirrorObject_m(arrays, obj) ==
    IF ~obj.readable
    THEN NoArrays
    ELSE LET i == InsertPos(obj.id, arrays.ids)
         IN  [certs    |-> InsertAt(arrays.certs, i, obj.der),
              cert_len |-> InsertAt(arrays.cert_len, i, Len(obj.der)),
              keys     |-> InsertAt(arrays.keys, i,
                                    vcard_emul_make_key(obj.der)),
              ids      |-> InsertAt(arrays.ids, i, obj.id)]
\* one round of the fill loop for the enumerated object obj
MirrorObject(arrays, obj) ==
    IF ~obj.readable
    THEN arrays      \* CKA_VALUE or CKA_ID unreadable, or no temp certificate
    ELSE LET i == InsertPos(obj.id, arrays.ids)
         IN  [certs    |-> InsertAt(arrays.certs, i, obj.der),
              cert_len |-> InsertAt(arrays.cert_len, i, Len(obj.der)),
              keys     |-> InsertAt(arrays.keys, i,
                                    vcard_emul_make_key(obj.der)),
              ids      |-> InsertAt(arrays.ids, i, obj.id)]

\* the fill loop over the objects in the order the provider enumerates them
RECURSIVE MirrorFill(_, _, _)
MirrorFill(objs, order, arrays) ==
    IF order = <<>> THEN arrays
    ELSE MirrorFill(objs, Tail(order),
                    MirrorObject(arrays, objs[Head(order)]))

\* the card built from the arrays, or NULL for a reader of no card type
vcard_emul_make_card(type, arrays) ==
    IF type = VCARD_EMUL_NONE THEN NULL
    ELSE [null      |-> FALSE,
          type      |-> type,
          serial_of |-> IF Len(arrays.certs) > 0 THEN arrays.certs[1]
                        ELSE <<>>,
          certs     |-> arrays.certs,
          cert_len  |-> arrays.cert_len,
          keys      |-> arrays.keys]

\* what one call does: the arguments handed to vcard_emul_make_card (passed
\* is FALSE when the slot lists no certificate object at all) and the card
vcard_emul_mirror_card(objs, order, type) ==
    IF Len(objs) = 0
    THEN [called |-> TRUE, passed |-> FALSE, args |-> NoArrays, card |-> NULL,
          type |-> type]
    ELSE LET arrays == MirrorFill(objs, order, NoArrays)
         IN  [called |-> TRUE, passed |-> TRUE, args |-> arrays,
              card |-> vcard_emul_make_card(type, arrays), type |-> type]

----------------------------------------------------------------------------
(* Specification of the card mirror *)

\* identifiers "A", "B", "C" and "AB"
ObjectIds == {<<65>>, <<66>>, <<67>>, <<65, 66>>}

\* the DER encoding of the k-th certificate: k bytes, so that both the
\* content and the length tell the certificates apart
DerOf(k) == [i \in 1..k |-> 48]

\* a is listed before b: the objects of a slot are numbered by identifier,
\* unreadable ones first among equals (the numbering only names the objects;
\* the order of enumeration is drawn with every call)
ListedBefore(a, b) ==
    LET c == SECITEM_CompareItem(a.id, b.id)
    IN  c < SECEqual \/ (c = SECEqual /\ (a.readable => b.readable))

\* the contents a slot can have: up to MaxObjs certificate objects
SlotContents ==
    UNION {{objs \in [1..n -> [id : ObjectIds, readable : BOOLEAN]] :
               \A k \in 1..(n - 1) : ListedBefore(objs[k], objs[k + 1])} :
           n \in 0..MaxObjs}

\* the k-th object of the slot with its certificate
WithDer(objs) ==
    [k \in 1..Len(objs) |-> [id |-> objs[k].id, der |-> DerOf(k),
                             readable |-> objs[k].readable]]

\* the orders in which the provider can enumerate n objects
EnumOrders(n) ==
    {p \in [1..n -> 1..n] : \A i, j \in 1..n : p[i] = p[j] => i = j}

InitMirror ==
    /\ nss_emul_init = TRUE
    /\ slot_objects \in {WithDer(objs) : objs \in SlotContents}
    /\ enum_order = <<>>
    /\ mirrored = NotMirrored
    /\ RsaIdle
    /\ LoginIdle
    /\ HotIdle

Mirror ==
    /\ \E order \in EnumOrders(Len(slot_objects)), type \in CardTypes :
          /\ enum_order' = order
          /\ mirrored' = vcard_emul_mirror_card(slot_objects, order, type)
    /\ UNCHANGED <<nss_emul_init, slot_objects, rsaVars, loginVars, hotVars>>

NextMirror == Mirror

SpecMirror == InitMirror /\ [][NextMirror]_vars

----------------------------------------------------------------------------
(* Readers, the registry and the provider's slots *)

\* slots of the provider module
NumSlots == 1
\* greatest generation (series) a slot reports
MaxSeries == 2
\* most card objects built in one run
MaxCards == 3

Slots == 1..NumSlots

\* PK11_GetSlotSeries: a slot's series starts at 1 and only grows
SlotSeries == 1..MaxSeries

VCARD_EMUL_OK == "VCARD_EMUL_OK"
VCARD_EMUL_FAIL == "VCARD_EMUL_FAIL"
VCARD_EMUL_INIT_ALREADY_INITED == "VCARD_EMUL_INIT_ALREADY_INITED"

\* the n-th card object built
Card(n) == [null |-> FALSE, obj |-> n]

\* a new VReaderEmul and, in the field card, the card of its VReader
vreader_emul_new(slot, type, params) ==
    [slot |-> slot, default_type |-> type, type_params |-> params,
     present |-> FALSE, series |-> 0, saved_vcard |-> NULL, card |-> NULL]

\* one entry of registry_log
Call(name, r, card, held) ==
    [call |-> name, reader |-> r, card |-> card, held |-> held]

\* The operators below work on a record w of the readers, the calls logged
\* and the number of cards built.

\* the registry appends the reader
vreader_add_reader(w, emul) ==
    [w EXCEPT !.readers = Append(@, emul),
              !.log = Append(@, Call("vreader_add_reader",
                                     Len(w.readers) + 1, NULL, NULL))]

\* the registry replaces the reader's card (NULL: removal) and queues the
\* card event
vreader_insert_card(w, r, card) ==
    [w EXCEPT !.readers[r].card = card,
              !.log = Append(@, Call("vreader_insert_card", r, card,
                                     w.readers[r].card))]

\* VREADER_OK exactly when the registry holds a card for the reader
vreader_card_is_present(w, r) == w.readers[r].card # NULL

\* index of the first reader of the slot, 0 for none
vcard_emul_find_vreader_from_slot(rds, slot) ==
    LET found == {r \in 1..Len(rds) : rds[r].slot = slot}
    IN  IF found = {} THEN 0
        ELSE CHOOSE r \in found : \A q \in found : r <= q

\* a card built for reader r by the function name (vcard_emul_mirror_card or
\* vcard_emul_make_card); built is FALSE when the function returns NULL
BuildCard(w, r, name, built) ==
    LET vcard == IF built THEN Card(w.next_card + 1) ELSE NULL
    IN  [vcard |-> vcard,
         w |-> [w EXCEPT !.next_card = IF built THEN @ + 1 ELSE @,
                         !.log = Append(@, Call(name, r, vcard, NULL))]]

MirrorReader(w, r, built) == BuildCard(w, r, "vcard_emul_mirror_card", built)

----------------------------------------------------------------------------
(* vcard_emul_event_thread: one round of the loop *)

\* a faulty EventNewReader: the new reader is marked present
EventNewReader_m(w, slot, type, params) ==
    vreader_add_reader(w, [vreader_emul_new(slot, type, params)
                               EXCEPT !.present = TRUE])
\* lines 841-849: a slot without reader gets a new reader, no card action
EventNewReader(w, slot, type, params) ==
    vreader_add_reader(w, vreader_emul_new(slot, type, params))

\* a faulty SeriesChanged: every present event rebuilds
SeriesChanged_m(series, emul) == TRUE
\* line 855
SeriesChanged(series, emul) == series # emul.series

\* a faulty RemovesFirst: the old card is never removed
RemovesFirst_m(emul) == FALSE
\* line 856
RemovesFirst(emul) == emul.present

\* a faulty EventPresent: the generation is compared only for a reader that
\* is marked present
EventPresent_m(w, r, series, built) ==
    LET w1 == IF w.readers[r].present /\ SeriesChanged(series, w.readers[r])
              THEN LET wr == IF RemovesFirst(w.readers[r])
                             THEN vreader_insert_card(w, r, NULL)
                             ELSE w
                       m == MirrorReader(wr, r, built)
                   IN  vreader_insert_card(m.w, r, m.vcard)
              ELSE w
    IN  [w1 EXCEPT !.readers[r].series = series,
                   !.readers[r].present = TRUE]
\* lines 853-868: the slot reports a token present, with generation series
EventPresent(w, r, series, built) ==
    LET w1 == IF SeriesChanged(series, w.readers[r])
              THEN LET wr == IF RemovesFirst(w.readers[r])
                             THEN vreader_insert_card(w, r, NULL)
                             ELSE w
                       m == MirrorReader(wr, r, built)
                   IN  vreader_insert_card(m.w, r, m.vcard)
              ELSE w
    IN  [w1 EXCEPT !.readers[r].series = series,
                   !.readers[r].present = TRUE]

\* a faulty AbsentRemoves: the removal is signalled for every absent event
AbsentRemoves_m(emul) == TRUE
\* line 869
AbsentRemoves(emul) == emul.present

\* a faulty EventAbsent: the stored series is kept
EventAbsent_m(w, r) ==
    LET w1 == IF AbsentRemoves(w.readers[r])
              THEN vreader_insert_card(w, r, NULL)
              ELSE w
    IN  [w1 EXCEPT !.readers[r].present = FALSE]
\* lines 869-875: the slot reports no token
EventAbsent(w, r) ==
    LET w1 == IF AbsentRemoves(w.readers[r])
              THEN vreader_insert_card(w, r, NULL)
              ELSE w
    IN  [w1 EXCEPT !.readers[r].series = 0,
                   !.readers[r].present = FALSE]

\* lines 838-875: the round for an event of the slot; is_present, series and
\* built are what PK11_IsPresent, PK11_GetSlotSeries and the mirror answer
vcard_emul_event_thread(w, slot, type, params, is_present, series, built) ==
    LET r == vcard_emul_find_vreader_from_slot(w.readers, slot)
    IN  IF r = 0 THEN EventNewReader(w, slot, type, params)
        ELSE IF is_present THEN EventPresent(w, r, series, built)
        ELSE EventAbsent(w, r)

----------------------------------------------------------------------------
(* vcard_emul_init_series, forced presence, vcard_emul_init *)

vcard_emul_init_series(w, r, is_present, series) ==
    LET w1 == [w EXCEPT !.readers[r].present = is_present,
                        !.readers[r].series = series]
    IN  IF ~is_present THEN vreader_insert_card(w1, r, NULL) ELSE w1

\* a faulty ForceRemoveRefused: only the initialization is checked
ForceRemoveRefused_m(init, w, r) == ~init
\* line 940
ForceRemoveRefused(init, w, r) == ~init \/ ~vreader_card_is_present(w, r)

vcard_emul_force_card_remove(init, w, r) ==
    IF ForceRemoveRefused(init, w, r)
    THEN [ret |-> VCARD_EMUL_FAIL, w |-> w]
    ELSE [ret |-> VCARD_EMUL_OK, w |-> vreader_insert_card(w, r, NULL)]

\* line 956
ForceInsertRefused(init, w, r) == ~init \/ vreader_card_is_present(w, r)

\* a faulty PhysicallyRemoved: the slot's presence is not looked at
PhysicallyRemoved_m(is_present) == FALSE
\* line 966
PhysicallyRemoved(is_present) == ~is_present

\* a faulty SoftCard: a card is rebuilt instead of the saved one
SoftCard_m(w, r) == BuildCard(w, r, "vcard_reference", TRUE)
\* lines 962-963: a new reference to the saved card
SoftCard(w, r) == [vcard |-> w.readers[r].saved_vcard, w |-> w]

vcard_emul_force_card_insert(init, w, r, is_present, built) ==
    IF ForceInsertRefused(init, w, r)
    THEN [ret |-> VCARD_EMUL_FAIL, w |-> w]
    ELSE IF w.readers[r].saved_vcard = NULL /\ PhysicallyRemoved(is_present)
    THEN [ret |-> VCARD_EMUL_FAIL, w |-> w]
    ELSE LET m == IF w.readers[r].saved_vcard # NULL
                  THEN SoftCard(w, r)
                  ELSE MirrorReader(w, r, built)
         IN  [ret |-> VCARD_EMUL_OK,
              w |-> vreader_insert_card(m.w, r, m.vcard)]

\* the registry queues a card event carrying the reader's current card
vreader_queue_card_event(w, r) ==
    [w EXCEPT !.log = Append(@, Call("vreader_queue_card_event", r,
                                     w.readers[r].card, w.readers[r].card))]

\* a faulty ReplayEntries: readers without card are passed over
ReplayEntries_m(rds) == {r \in 1..Len(rds) : rds[r].card # NULL}
\* lines 1199-1200: the loop visits every entry of the reader list
ReplayEntries(rds) == 1..Len(rds)

\* lines 1199-1204, from entry r on
RECURSIVE ReplayFrom(_, _)
ReplayFrom(w, r) ==
    IF r > Len(w.readers) THEN w
    ELSE ReplayFrom(IF r \in ReplayEntries(w.readers)
                    THEN vreader_queue_card_event(w, r)
                    ELSE w,
                    r + 1)

vcard_emul_replay_insertion_events(w) == ReplayFrom(w, 1)

\* lines 1070-1115: one soft reader of the options; certs tells whether any
\* of its certificates was found by nickname
InitSoftReader(w, p) ==
    LET w1 == vreader_add_reader(
                  w, vreader_emul_new(p.slot, p.card_type, p.type_params))
        r  == Len(w1.readers)
    IN  IF ~p.certs THEN w1
        ELSE LET m  == BuildCard(w1, r, "vcard_emul_make_card", p.built)
                 w2 == vreader_insert_card(m.w, r, m.vcard)
                 w3 == vcard_emul_init_series(w2, r, p.is_present, p.series)
             IN  [w3 EXCEPT !.readers[r].saved_vcard = m.vcard]

\* lines 1162-1179: one removable hardware slot of the module
InitHwReader(w, p, hw) ==
    LET w1 == vreader_add_reader(
                  w, vreader_emul_new(p.slot, hw.hw_card_type,
                                      hw.hw_type_params))
        r  == Len(w1.readers)
    IN  IF ~p.is_present THEN w1
        ELSE LET m  == MirrorReader(w1, r, p.built)
                 w2 == vreader_insert_card(m.w, r, m.vcard)
             IN  vcard_emul_init_series(w2, r, p.is_present, p.series)

RECURSIVE InitSoftReaders(_, _)
InitSoftReaders(w, ps) ==
    IF ps = <<>> THEN w
    ELSE InitSoftReaders(InitSoftReader(w, Head(ps)), Tail(ps))

RECURSIVE InitHwReaders(_, _, _)
InitHwReaders(w, ps, hw) ==
    IF ps = <<>> THEN w
    ELSE InitHwReaders(InitHwReader(w, Head(ps), hw), Tail(ps), hw)

\* vcard_emul_init from line 1006 on, for the options o
vcard_emul_init(w, o) ==
    IF ~o.nss_ok
    THEN [ret |-> VCARD_EMUL_FAIL, w |-> w, nss_emul_init |-> FALSE,
          threads |-> FALSE, default_card_type |-> VCARD_EMUL_NONE,
          default_type_params |-> ""]
    ELSE LET w1 == InitSoftReaders(w, o.vreader)
             has_readers == \E k \in 1..Len(o.vreader) : o.vreader[k].certs
         IN  IF ~o.use_hw
             THEN [ret |-> IF has_readers THEN VCARD_EMUL_OK
                           ELSE VCARD_EMUL_FAIL,
                   w |-> w1, nss_emul_init |-> has_readers,
                   threads |-> FALSE,
                   default_card_type |-> VCARD_EMUL_NONE,
                   default_type_params |-> ""]
             ELSE [ret |-> VCARD_EMUL_OK,
                   w |-> InitHwReaders(w1, o.slots, o.hw),
                   nss_emul_init |-> TRUE, threads |-> TRUE,
                   default_card_type |-> o.hw.hw_card_type,
                   default_type_params |-> o.hw.hw_type_params]

----------------------------------------------------------------------------
(* Specification of initialization, hot-plug and forced presence *)

\* options->hw_card_type with options->hw_type_params
HwOptions ==
    {[hw_card_type |-> VCARD_EMUL_NONE, hw_type_params |-> ""],
     [hw_card_type |-> VCARD_EMUL_CAC, hw_type_params |-> "hw"]}

\* what the provider answers about a slot when a reader is set up
SlotAnswers ==
    [is_present : BOOLEAN, series : SlotSeries, built : BOOLEAN]

\* a soft reader of the options whose slot name was found; a card type other
\* than VCARD_EMUL_NONE always gets its card built
SoftReaders ==
    {p \in [slot : Slots, card_type : CardTypes, type_params : {"soft"},
            certs : BOOLEAN, is_present : BOOLEAN, series : SlotSeries,
            built : BOOLEAN] :
        /\ p.card_type # VCARD_EMUL_NONE => p.built
        /\ ~p.certs => (p.built /\ p.is_present /\ p.series = 1)}

\* the removable hardware slots the module lists, in slot order; nothing is
\* read from a slot without token
RECURSIVE HwReaders(_)
HwReaders(n) ==
    IF n = 0 THEN {<<>>}
    ELSE LET here == {p \in [slot : {n}, is_present : BOOLEAN,
                             series : SlotSeries, built : BOOLEAN] :
                         ~p.is_present => (p.built /\ p.series = 1)}
         IN  HwReaders(n - 1) \cup
             {Append(ps, p) : ps \in HwReaders(n - 1), p \in here}

\* the options of vcard_emul_init and the provider's answers during it: no
\* or one soft reader, hardware or none
InitOptions ==
    {o \in [nss_ok : BOOLEAN, use_hw : BOOLEAN, hw : HwOptions,
            vreader : {<<>>} \cup {<<p>> : p \in SoftReaders},
            slots : HwReaders(NumSlots)] :
        /\ ~o.nss_ok => (o.vreader = <<>> /\ o.use_hw /\ o.slots = <<>>)
        /\ ~o.use_hw => (o.slots = <<>> /\ o.hw.hw_card_type = VCARD_EMUL_CAC)
        /\ ~o.nss_ok => o.hw.hw_card_type = VCARD_EMUL_CAC}

World == [readers |-> readers, log |-> <<>>, next_card |-> next_card]

Summary(last) ==
    IF last.op = "none" THEN NoOp
    ELSE [op |-> last.op, reader |-> last.reader, ret |-> last.ret,
          held |-> IF last.op \in {"forceRemove", "forceInsert"}
                   THEN last.before.card
                   ELSE NULL]

\* the new state of the registry after an operation that led to w, and the
\* record of the operation
Done(w, last) ==
    /\ w.next_card <= MaxCards
    /\ readers' = w.readers
    /\ next_card' = w.next_card
    /\ registry_log' = w.log
    /\ hp_last' = last
    /\ hp_prev' = Summary(hp_last)

InitHotplug ==
    /\ nss_emul_init = FALSE
    /\ HotIdle
    /\ RsaIdle
    /\ LoginIdle
    /\ MirrorIdle

VcardEmulInit ==
    /\ ~vcard_emul_init_called
    /\ \E o \in InitOptions :
          LET res == vcard_emul_init(World, o)
          IN  /\ vcard_emul_init_called' = TRUE
              /\ nss_emul_init' = res.nss_emul_init
              /\ thread_running' = res.threads
              /\ default_card_type' = res.default_card_type
              /\ default_type_params' = res.default_type_params
              /\ Done(res.w, [op |-> "init", reader |-> 0, ret |-> res.ret])
    /\ UNCHANGED <<rsaVars, loginVars, mirrorVars>>

\* a second call of vcard_emul_init
VcardEmulInitAgain ==
    /\ vcard_emul_init_called
    /\ Done(World, [op |-> "init", reader |-> 0,
                    ret |-> VCARD_EMUL_INIT_ALREADY_INITED])
    /\ UNCHANGED <<nss_emul_init, vcard_emul_init_called, default_card_type,
                   default_type_params, thread_running, rsaVars, loginVars,
                   mirrorVars>>

\* the event thread handles an event of a slot
SlotEvent ==
    /\ thread_running
    /\ \E slot \in Slots, a \in SlotAnswers :
          LET r == vcard_emul_find_vreader_from_slot(readers, slot)
              w == vcard_emul_event_thread(World, slot, default_card_type,
                                           default_type_params, a.is_present,
                                           a.series, a.built)
          IN  /\ (r = 0 \/ ~a.is_present) => (a.built /\ a.series = 1)
              /\ Done(w, [op |-> "event", reader |-> r, slot |-> slot,
                          is_present |-> a.is_present, series |-> a.series,
                          ret |-> VCARD_EMUL_OK,
                          before |-> IF r = 0 THEN NULL ELSE readers[r]])
    /\ UNCHANGED <<nss_emul_init, vcard_emul_init_called, default_card_type,
                   default_type_params, thread_running, rsaVars, loginVars,
                   mirrorVars>>

\* lines 831-835: the wait ends with "no event" and the loop goes on
EventNoEvent ==
    /\ thread_running
    /\ Done(World, [op |-> "noevent", reader |-> 0, ret |-> VCARD_EMUL_OK])
    /\ UNCHANGED <<nss_emul_init, vcard_emul_init_called, default_card_type,
                   default_type_params, thread_running, rsaVars, loginVars,
                   mirrorVars>>

\* lines 831-837: the wait fails with an error other than "no event" and the
\* thread leaves its loop
EventWaitFails ==
    /\ thread_running
    /\ thread_running' = FALSE
    /\ Done(World, [op |-> "wait", reader |-> 0, ret |-> VCARD_EMUL_FAIL])
    /\ UNCHANGED <<nss_emul_init, vcard_emul_init_called, default_card_type,
                   default_type_params, rsaVars, loginVars, mirrorVars>>

ForceRemove ==
    /\ \E r \in 1..Len(readers) :
          LET res == vcard_emul_force_card_remove(nss_emul_init, World, r)
          IN  Done(res.w, [op |-> "forceRemove", reader |-> r,
                           ret |-> res.ret, before |-> readers[r]])
    /\ UNCHANGED <<nss_emul_init, vcard_emul_init_called, default_card_type,
                   default_type_params, thread_running, rsaVars, loginVars,
                   mirrorVars>>

ForceInsert ==
    /\ \E r \in 1..Len(readers), is_present \in BOOLEAN, built \in BOOLEAN :
          LET res == vcard_emul_force_card_insert(nss_emul_init, World, r,
                                                  is_present, built)
          IN  Done(res.w, [op |-> "forceInsert", reader |-> r,
                           is_present |-> is_present, ret |-> res.ret,
                           before |-> readers[r]])
    /\ UNCHANGED <<nss_emul_init, vcard_emul_init_called, default_card_type,
                   default_type_params, thread_running, rsaVars, loginVars,
                   mirrorVars>>

ReplayInsertionEvents ==
    /\ Done(vcard_emul_replay_insertion_events(World),
            [op |-> "replay", reader |-> 0, ret |-> VCARD_EMUL_OK,
             before |-> readers])
    /\ UNCHANGED <<nss_emul_init, vcard_emul_init_called, default_card_type,
                   default_type_params, thread_running, rsaVars, loginVars,
                   mirrorVars>>

NextHotplug ==
    \/ VcardEmulInit
    \/ VcardEmulInitAgain
    \/ SlotEvent
    \/ EventNoEvent
    \/ EventWaitFails
    \/ ForceRemove
    \/ ForceInsert
    \/ ReplayInsertionEvents

SpecHotplug == InitHotplug /\ [][NextHotplug]_vars

----------------------------------------------------------------------------
(* Properties of the RSA operation emulator *)

Range(q) == {q[k] : k \in DOMAIN q}

RsaCalled == rsa_ret # NoCall

\* the last call got as far as comparing the buffer length with the key's
\* signature length: the subsystem was initialized, the key handle was not
\* null and the private key was obtained
RsaReachedLengthCheck == "PK11_SignatureLen" \in Range(rsa_calls)

RsaTriedRaw == "PK11_PrivDecryptRaw" \in Range(rsa_calls)

\* C1 as stated: every call of rsaOperation whose buffer length differs from
\* the key's signature length returns DataInvalid and leaves the caller's
\* buffer byte-for-byte unchanged.
C1_Original ==
    (RsaCalled /\ Len(rsa_in) # SigLen) =>
        /\ rsa_ret = Returned(VCARD7816_STATUS_ERROR_DATA_INVALID)
        /\ buffer = rsa_in

\* C1 amended: a call made with the subsystem initialized, a non-null key
\* handle and an obtainable private key, whose buffer length differs from the
\* key's signature length, returns DataInvalid; a call that fails one of
\* those three earlier checks returns ConditionNotSatisfied whatever the
\* buffer length; in both cases the caller's buffer is unchanged.
C1_LengthMismatch ==
    (RsaCalled /\ Len(rsa_in) # SigLen) =>
        /\ buffer = rsa_in
        /\ rsa_ret = Returned(IF RsaReachedLengthCheck
                                  THEN VCARD7816_STATUS_ERROR_DATA_INVALID
                                  ELSE VCARD7816_STATUS_ERROR_CONDITION_NOT_SATISFIED)

C1_Witness ==
    /\ Len(rsa_in) # SigLen
    /\ RsaReachedLengthCheck
    /\ rsa_ret = Returned(VCARD7816_STATUS_ERROR_DATA_INVALID)
    /\ buffer = rsa_in

\* C2: a call of rsaOperation on a key handle whose tri-state is already
\* RequiresPaddingEmulation (VCardEmulTrue) never invokes the raw private-key
\* decrypt, whatever the slot advertises.
C2_NoRawAfterEmulation ==
    (RsaCalled /\ rsa_prev = VCardEmulTrue) => ~RsaTriedRaw

\* a call on a RequiresPaddingEmulation key that went through to a provider
\* primitive and succeeded
C2_Witness ==
    /\ rsa_prev = VCardEmulTrue
    /\ rsa_ret = Returned(VCARD7816_STATUS_SUCCESS)
    /\ Len(rsa_calls) > 3

\* C3 as stated: once the tri-state is SupportsRawOp (VCardEmulFalse) or
\* RequiresPaddingEmulation (VCardEmulTrue), no later rsaOperation changes it.
C3_TriStateSticky ==
    (RsaCalled /\ rsa_prev # VCardEmulUnknown) => failedX509 = rsa_prev

\* C4: when the PKCS #1 decrypt recovers r payload bytes and
\* padLen = bufferLength - r >= 4, rsaOperation returns Success and the buffer
\* is 00 02, padLen-3 bytes 03, 00, then the payload, filling it exactly.
Pkcs1Block(payload, n) ==
    <<0, 2>> \o [k \in 1..(n - Len(payload) - 3) |-> 3] \o <<0>> \o payload

C4_RepackagedBlock ==
    (rsa_payload # <<>> /\ Len(rsa_in) - Len(rsa_payload[1]) >= 4) =>
        /\ rsa_ret = Returned(VCARD7816_STATUS_SUCCESS)
        /\ buffer = Pkcs1Block(rsa_payload[1], Len(rsa_in))
        /\ Len(buffer) = Len(rsa_in)
        /\ SubSeq(buffer, Len(buffer) - Len(rsa_payload[1]) + 1, Len(buffer))
               = rsa_payload[1]

\* a one-byte payload, non-zero, repackaged with exactly four bytes around it
C4_Witness ==
    /\ rsa_payload # <<>>
    /\ Len(rsa_payload[1]) = SigLen - 4
    /\ rsa_ret = Returned(VCARD7816_STATUS_SUCCESS)
    /\ buffer # rsa_in

\* C5: when the PKCS #1 decrypt succeeds but padLen < 4, rsaOperation returns
\* GeneralError, never Success.
C5_ShortPadFails ==
    (rsa_payload # <<>> /\ Len(rsa_in) - Len(rsa_payload[1]) < 4) =>
        rsa_ret = Returned(VCARD7816_STATUS_ERROR_GENERAL)

\* padLen = 3, the largest padding that is refused
C5_Witness ==
    /\ rsa_payload # <<>>
    /\ Len(rsa_in) - Len(rsa_payload[1]) = 3
    /\ rsa_ret = Returned(VCARD7816_STATUS_ERROR_GENERAL)

----------------------------------------------------------------------------
(* Properties of the login functions *)

LoginSubmitted == last_op = "login" /\ submitted # <<>>

\* position k of pin p lies in its run of trailing 0xFF bytes
InTrailingFF(p, k) == \A j \in k..Len(p) : p[j] = 255

\* C6: login submits the pin with every trailing 0xFF byte replaced by 0x00
\* and every other byte (interior 0xFF bytes too) unchanged, followed by the
\* terminating 0; "1234\xFF\xFF" is submitted as "1234\x00\x00".
C6_PinNormalized ==
    LoginSubmitted =>
        /\ Len(submitted) = Len(pin) + 1
        /\ submitted[Len(pin) + 1] = 0
        /\ \A k \in 1..Len(pin) :
               submitted[k] = (IF InTrailingFF(pin, k) THEN 0 ELSE pin[k])

\* a pin with an interior 0xFF and a trailing 0xFF, and the scenario pin
C6_Witness ==
    /\ LoginSubmitted
    /\ \/ pin = <<255, 49, 255>> /\ submitted = <<255, 49, 0, 0>>
       \/ pin = ScenarioPin /\ submitted = <<49, 50, 51, 52, 0, 0, 0>>

C8_PinZeroed ==
    LoginSubmitted =>
        /\ Len(pin_string) = Len(pin) + 1
        /\ \A k \in 1..Len(pin_string) : pin_string[k] = 0

\* a pin with non-zero bytes was submitted and rejected
C8_Witness ==
    /\ LoginSubmitted
    /\ auth_rv = "SECFailure"
    /\ \E k \in 1..Len(submitted) : submitted[k] # 0
    /\ \A k \in 1..Len(pin_string) : pin_string[k] = 0

\* C9 as stated: isLoggedIn returns true whenever the slot does not require
\* login, and otherwise returns exactly the provider's logged-in state.
C9_IsLoggedInValue ==
    (last_op = "is_logged_in") =>
        /\ ~needLogin => ili_ret[1] # 0
        /\ needLogin => ((ili_ret[1] # 0) <=> loggedIn)

\* C10: isLoggedIn changes no session state and issues no login or logout,
\* and two adjacent isLoggedIn calls return the same value; logout on a
\* session that is already logged out changes no state and issues no
\* PK11_Logout.
C10_Idempotent ==
    /\ (last_op = "is_logged_in") =>
           /\ loggedIn = li_before
           /\ "PK11_Logout" \notin Range(prov_calls)
           /\ "PK11_Authenticate" \notin Range(prov_calls)
           /\ ili_prev # NoCall => ili_ret = ili_prev
    /\ (last_op = "logout" /\ ~li_before) =>
           /\ loggedIn = li_before
           /\ "PK11_Logout" \notin Range(prov_calls)

\* two adjacent isLoggedIn calls on a logged-in session after a login
C10_Witness ==
    /\ last_op = "is_logged_in"
    /\ ili_prev = Returned(1)
    /\ ili_ret = Returned(1)
    /\ needLogin
    /\ loggedIn

\* C11 as stated: after reset, with power on or off, the session is logged
\* out: isLoggedIn (asked right after the reset) is true only if the slot
\* requires no login.
C11_ResetLogsOut ==
    (last_op = "reset") =>
        (vcard_emul_is_logged_in(nss_emul_init, needLogin, loggedIn) # 0
             => ~needLogin)

----------------------------------------------------------------------------
(* Properties of the card mirror *)

\* the identifiers of the objects, in the order of the last enumeration
EnumeratedIds ==
    [k \in 1..Len(enum_order) |-> slot_objects[enum_order[k]].id]

\* C12: the certificates are passed to the card builder in ascending binary
\* order of their identifier, whatever order the provider enumerates them
\* in: every passed entry belongs to the object of its identifier, and no
\* identifier is greater than a later one.
C12_AscendingIds ==
    (mirrored.called /\ mirrored.passed) =>
        /\ \A i \in 1..Len(mirrored.args.certs) :
              \E k \in 1..Len(slot_objects) :
                  /\ slot_objects[k].readable
                  /\ slot_objects[k].der = mirrored.args.certs[i]
                  /\ slot_objects[k].id = mirrored.args.ids[i]
        /\ \A i, j \in 1..Len(mirrored.args.ids) :
              i < j => SECITEM_CompareItem(mirrored.args.ids[i],
                                           mirrored.args.ids[j]) <= SECEqual

\* C12's example: identifiers enumerated as "B", "A", "C" give "A", "B", "C"
C12_Witness ==
    /\ mirrored.called /\ mirrored.passed
    /\ EnumeratedIds = <<<<66>>, <<65>>, <<67>>>>
    /\ \A k \in 1..3 : slot_objects[k].readable
    /\ mirrored.args.ids = <<<<65>>, <<66>>, <<67>>>>
    /\ mirrored.args.certs =
           <<slot_objects[enum_order[2]].der, slot_objects[enum_order[1]].der,
             slot_objects[enum_order[3]].der>>

\* C13 as stated: two calls against the same objects build the certificate
\* array in the same order, whatever the two enumeration orders are, also
\* when several objects carry the same identifier.
C13_SameOrderEveryCall ==
    [][(mirrored.called /\ mirrored'.called /\ slot_objects' = slot_objects)
          => mirrored'.args.certs = mirrored.args.certs]_vars

\* the objects of the slot whose certificate can be read
ReadableObjects ==
    {k \in 1..Len(slot_objects) : slot_objects[k].readable}

\* C29: mirrorCard passes over every certificate object it cannot read and
\* still includes every other one: the arrays handed to the card builder
\* hold exactly the readable objects, one entry each, and for a reader with
\* a card type the card built from them is returned, not null.
C29_SkipsUnreadable ==
    (mirrored.called /\ Len(slot_objects) > 0) =>
        /\ mirrored.passed
        /\ Len(mirrored.args.certs) = Cardinality(ReadableObjects)
        /\ \A k \in ReadableObjects :
              \E i \in 1..Len(mirrored.args.certs) :
                  /\ mirrored.args.certs[i] = slot_objects[k].der
                  /\ mirrored.args.cert_len[i] = Len(slot_objects[k].der)
                  /\ mirrored.args.keys[i] =
                         vcard_emul_make_key(slot_objects[k].der)
                  /\ \A j \in 1..Len(mirrored.args.certs) :
                        mirrored.args.certs[j] = slot_objects[k].der => j = i
        /\ mirrored.type # VCARD_EMUL_NONE =>
               /\ mirrored.card # NULL
               /\ mirrored.card.certs = mirrored.args.certs

\* an unreadable object enumerated between two readable ones
C29_Witness ==
    /\ mirrored.called /\ mirrored.passed
    /\ Len(slot_objects) = 3
    /\ Cardinality(ReadableObjects) = 2
    /\ ~slot_objects[enum_order[2]].readable
    /\ Len(mirrored.args.certs) = 2
    /\ mirrored.card # NULL
    /\ Len(mirrored.card.certs) = 2

----------------------------------------------------------------------------
(* Properties of the hot-plug loop and of forced presence *)

\* the last operation was a round of the event thread for a reader known to
\* the registry whose slot reported a token
HandledPresent ==
    hp_last.op = "event" /\ hp_last.reader # 0 /\ hp_last.is_present

\* the calls of the last operation made with the function name
Calls(name) == {k \in 1..Len(registry_log) : registry_log[k].call = name}

\* C14: a present event for a registered reader whose slot generation equals
\* the stored series mirrors nothing and sends neither a removal nor an
\* insertion to the registry.
C14_SameSeriesNoOp ==
    (HandledPresent /\ hp_last.series = hp_last.before.series) =>
        registry_log = <<>>

\* such an event, on a reader that holds a card
C14_Witness ==
    /\ HandledPresent
    /\ hp_last.series = hp_last.before.series
    /\ hp_last.before.card # NULL
    /\ registry_log = <<>>

\* C15: a present event whose slot generation differs from the stored series
\* signals, if the reader was marked present, the removal (null card) first,
\* then mirrors and inserts the mirrored card; afterwards the stored series
\* is the slot's generation and the reader is marked present.
C15_RemoveBeforeInsert ==
    (HandledPresent /\ hp_last.series # hp_last.before.series) =>
        LET r == hp_last.reader
            n == Len(registry_log)
        IN  /\ readers[r].series = hp_last.series
            /\ readers[r].present
            /\ n >= 2
            /\ registry_log[n - 1].call = "vcard_emul_mirror_card"
            /\ registry_log[n].call = "vreader_insert_card"
            /\ registry_log[n].card = registry_log[n - 1].card
            /\ hp_last.before.present =>
                   /\ n = 3
                   /\ registry_log[1] =
                          Call("vreader_insert_card", r, NULL,
                               hp_last.before.card)

\* a reader marked present and holding a card gets a new generation's card
C15_Witness ==
    /\ HandledPresent
    /\ hp_last.series # hp_last.before.series
    /\ hp_last.before.present
    /\ hp_last.before.card # NULL
    /\ Len(registry_log) = 3
    /\ registry_log[3].card # NULL
    /\ readers[hp_last.reader].card = registry_log[3].card

\* C16 as stated: the registry is never handed a new (non-null) card for a
\* reader that still holds one.
C16_NeverTwoCards ==
    \A k \in Calls("vreader_insert_card") :
        registry_log[k].card # NULL => registry_log[k].held = NULL

\* the last operation was a round of the event thread for a registered
\* reader
HandledEvent == hp_last.op = "event" /\ hp_last.reader # 0

\* the handled event found the slot's generation different from the stored
\* series
GenerationChanged ==
    hp_last.is_present /\ hp_last.series # hp_last.before.series

SeriesChangedByLast ==
    readers[hp_last.reader].series # hp_last.before.series

\* C17 as stated: the stored series changes if and only if a handled event
\* shows that the slot's generation changed, and with the series unchanged
\* nothing is mirrored.
C17_Original ==
    HandledEvent =>
        /\ SeriesChangedByLast <=> GenerationChanged
        /\ ~SeriesChangedByLast => Calls("vcard_emul_mirror_card") = {}

\* C17, amended: in the hot-plug loop the stored series changes if and only
\* if a present event reads a generation different from the stored series
\* or an absent event is handled while the stored series is not 0 (it is
\* cleared to 0); the loop mirrors exactly in the first case, so never with
\* the series left unchanged.
C17_SeriesChange ==
    HandledEvent =>
        /\ SeriesChangedByLast <=>
               \/ GenerationChanged
               \/ ~hp_last.is_present /\ hp_last.before.series # 0
        /\ Calls("vcard_emul_mirror_card") # {} <=> GenerationChanged
        /\ ~hp_last.is_present => readers[hp_last.reader].series = 0

\* an absent event clears a stored series
C17_Witness ==
    /\ HandledEvent
    /\ ~hp_last.is_present
    /\ hp_last.before.series # 0
    /\ readers[hp_last.reader].series = 0
    /\ Calls("vcard_emul_mirror_card") = {}

\* C18: forceRemove fails and sends nothing to the registry when the
\* subsystem is uninitialized or the reader has no card; otherwise it
\* signals the removal and returns OK, so a forceRemove directly after a
\* successful one on the same reader fails.
C18_ForceRemove ==
    hp_last.op = "forceRemove" =>
        LET r == hp_last.reader
            b == hp_last.before
        IN  /\ IF ~nss_emul_init \/ b.card = NULL
               THEN /\ hp_last.ret = VCARD_EMUL_FAIL
                    /\ registry_log = <<>>
                    /\ readers[r] = b
               ELSE /\ hp_last.ret = VCARD_EMUL_OK
                    /\ registry_log =
                           <<Call("vreader_insert_card", r, NULL, b.card)>>
                    /\ readers[r].card = NULL
            /\ (/\ hp_prev.op = "forceRemove"
                /\ hp_prev.reader = r
                /\ hp_prev.ret = VCARD_EMUL_OK) =>
                   hp_last.ret = VCARD_EMUL_FAIL

\* a forceRemove that failed directly after one that succeeded
C18_Witness ==
    /\ hp_last.op = "forceRemove"
    /\ hp_prev.op = "forceRemove"
    /\ hp_prev.reader = hp_last.reader
    /\ hp_prev.ret = VCARD_EMUL_OK
    /\ hp_prev.held # NULL
    /\ hp_last.ret = VCARD_EMUL_FAIL

\* C19: forceInsert on a reader without cached soft card whose slot reports
\* no token returns failure, inserts no card and leaves the reader's
\* presence flag, series, cached card and registry card unchanged.
C19_AbsentForceInsertFails ==
    (/\ hp_last.op = "forceInsert"
     /\ hp_last.before.saved_vcard = NULL
     /\ ~hp_last.is_present) =>
        /\ hp_last.ret = VCARD_EMUL_FAIL
        /\ registry_log = <<>>
        /\ readers[hp_last.reader] = hp_last.before

\* such a forceInsert that got as far as asking the slot
C19_Witness ==
    /\ hp_last.op = "forceInsert"
    /\ nss_emul_init
    /\ hp_last.before.card = NULL
    /\ hp_last.before.saved_vcard = NULL
    /\ hp_last.before.present
    /\ ~hp_last.is_present
    /\ hp_last.ret = VCARD_EMUL_FAIL

\* the last two operations were a successful forceRemove and then a
\* successful forceInsert on the same reader, which has a cached soft card
RemovedThenInserted ==
    /\ hp_last.op = "forceInsert"
    /\ hp_last.ret = VCARD_EMUL_OK
    /\ hp_last.before.saved_vcard # NULL
    /\ hp_prev.op = "forceRemove"
    /\ hp_prev.reader = hp_last.reader
    /\ hp_prev.ret = VCARD_EMUL_OK

\* what forceInsert does whatever came before: it fails when the subsystem
\* is uninitialized or the reader holds a card; on a reader with a cached
\* soft card and no card it hands the registry that very card object and
\* keeps it cached
ForceInsertContract ==
    hp_last.op = "forceInsert" =>
        LET r == hp_last.reader
            b == hp_last.before
        IN  /\ (~nss_emul_init \/ b.card # NULL) =>
                   /\ hp_last.ret = VCARD_EMUL_FAIL
                   /\ registry_log = <<>>
                   /\ readers[r] = b
            /\ (nss_emul_init /\ b.card = NULL /\ b.saved_vcard # NULL) =>
                   /\ hp_last.ret = VCARD_EMUL_OK
                   /\ registry_log =
                          <<Call("vreader_insert_card", r, b.saved_vcard,
                                 NULL)>>
                   /\ readers[r].card = b.saved_vcard
                   /\ readers[r].saved_vcard = b.saved_vcard

\* C20 as stated: forceInsert fails when uninitialized or a card is present
\* and inserts the cached soft card otherwise, so that forceRemove followed
\* by forceInsert restores the same card object, the one forceRemove took
\* out.
C20_Original ==
    /\ ForceInsertContract
    /\ RemovedThenInserted =>
           readers[hp_last.reader].card = hp_prev.held

\* C20, amended: forceInsert fails when uninitialized or a card is present;
\* on a reader with a cached soft card and no card it inserts that exact
\* cached card and keeps it cached, so forceRemove followed by forceInsert
\* puts the cached card object back, which is the object forceRemove took
\* out whenever the reader held its cached card.
C20_ForceInsertSoft ==
    /\ ForceInsertContract
    /\ RemovedThenInserted =>
           /\ readers[hp_last.reader].card = hp_last.before.saved_vcard
           /\ readers[hp_last.reader].saved_vcard = hp_last.before.saved_vcard
           /\ hp_prev.held = hp_last.before.saved_vcard =>
                  readers[hp_last.reader].card = hp_prev.held

\* forceRemove took the cached card out and forceInsert put the same object
\* back
C20_Witness ==
    /\ RemovedThenInserted
    /\ hp_prev.held # NULL
    /\ readers[hp_last.reader].card = hp_prev.held
    /\ readers[hp_last.reader].saved_vcard = hp_prev.held

\* C21: replayInsertionEvents queues exactly one card event for every
\* registered reader, carrying the card the reader holds, and changes no
\* reader's presence flag, series, cached card or inserted card.
C21_ReplayQueuesAll ==
    hp_last.op = "replay" =>
        /\ readers = hp_last.before
        /\ Len(registry_log) = Len(readers)
        /\ \A k \in 1..Len(registry_log) :
              /\ registry_log[k].call = "vreader_queue_card_event"
              /\ registry_log[k].reader \in 1..Len(readers)
              /\ registry_log[k].card = readers[registry_log[k].reader].card
        /\ \A r \in 1..Len(readers) :
              \E k \in 1..Len(registry_log) : registry_log[k].reader = r

\* a replay over two readers, one with a card and one without
C21_Witness ==
    /\ hp_last.op = "replay"
    /\ Len(readers) = 2
    /\ Len(registry_log) = 2
    /\ \E r, q \in 1..2 : readers[r].card # NULL /\ readers[q].card = NULL

\* C27: an event for a registered reader whose slot reports absent signals
\* the removal to the registry only if the reader was marked present, and
\* leaves the reader with series 0 and the presence flag false.
C27_AbsentEvent ==
    (HandledEvent /\ ~hp_last.is_present) =>
        /\ Calls("vreader_insert_card") # {} => hp_last.before.present
        /\ \A k \in Calls("vreader_insert_card") : registry_log[k].card = NULL
        /\ readers[hp_last.reader].series = 0
        /\ ~readers[hp_last.reader].present

\* an absent event for a reader marked present: the removal is signalled
C27_Witness ==
    /\ HandledEvent
    /\ ~hp_last.is_present
    /\ hp_last.before.present
    /\ hp_last.before.series # 0
    /\ Calls("vreader_insert_card") # {}
    /\ readers[hp_last.reader].series = 0
    /\ ~readers[hp_last.reader].present

\* the last operation was an event of a slot that no reader referred to
NewSlotEvent == hp_last.op = "event" /\ hp_last.reader = 0

\* C28: an event for a slot without reader adds exactly one reader for the
\* slot, with the default type and parameters, presence flag false and
\* series 0, and neither mirrors a card nor sends an insertion or removal,
\* whatever the slot reports.
C28_NewReaderOnly ==
    NewSlotEvent =>
        /\ registry_log = <<Call("vreader_add_reader", Len(readers),
                                 NULL, NULL)>>
        /\ readers[Len(readers)] =
               vreader_emul_new(hp_last.slot, default_card_type,
                                default_type_params)
        /\ Cardinality({r \in 1..Len(readers) :
                            readers[r].slot = hp_last.slot}) = 1

\* a new reader added while its slot reports a token present
C28_Witness ==
    /\ NewSlotEvent
    /\ hp_last.is_present
    /\ Len(readers) > 0
    /\ ~readers[Len(readers)].present
    /\ readers[Len(readers)].series = 0
    /\ readers[Len(readers)].card = NULL

\* C30: the hot-plug thread never stops: after every outcome of the wait it
\* polls again.
C30_ThreadNeverStops == [][thread_running => thread_running']_vars

\* C22: the reader registry never contains two readers that refer to the
\* same provider slot.
C22_NoDuplicateReaders ==
    \A r, q \in 1..Len(readers) :
        readers[r].slot = readers[q].slot => r = q

----------------------------------------------------------------------------
(* The RSA emulator: key reference, error reporting, choice of the path *)

\* positions of the log at which the private key was released
KeyReleases ==
    {k \in 1..Len(rsa_calls) : rsa_calls[k] = "SECKEY_DestroyPrivateKey"}

\* the last call obtained the private key from the provider
KeyAcquired ==
    /\ "PK11_FindPrivateKeyFromCert" \in Range(rsa_calls)
    /\ "PK11_FindPrivateKeyFromCert" \notin Range(rsa_trace.failed)

\* C23: rsaOperation releases the private key it acquired exactly once, as
\* its last provider call, on every return after the acquisition, and
\* releases nothing when it returns without having acquired the key.
C23_KeyReleasedOnce ==
    RsaCalled =>
        IF KeyAcquired
            THEN KeyReleases = {Len(rsa_calls)}
            ELSE KeyReleases = {}

\* the GeneralError return (padding cannot be rebuilt) with the key released
C23_Witness ==
    /\ rsa_ret = Returned(VCARD7816_STATUS_ERROR_GENERAL)
    /\ KeyAcquired
    /\ KeyReleases = {Len(rsa_calls)}

\* the raw decrypt of the last call failed
RawFailed == "PK11_PrivDecryptRaw" \in Range(rsa_trace.failed)

\* the last call went into the sign path or the PKCS #1 decrypt path
EmulationTried ==
    \/ "PK11_Sign" \in Range(rsa_calls)
    \/ "PK11_PrivDecryptPKCS1" \in Range(rsa_calls)

\* a provider failure that ends the call: in sign, in the PKCS #1 decrypt,
\* or in the raw decrypt on a SupportsRawOp key
FinalProviderFailure ==
    \/ "PK11_Sign" \in Range(rsa_trace.failed)
    \/ "PK11_PrivDecryptPKCS1" \in Range(rsa_trace.failed)
    \/ RawFailed /\ rsa_prev = VCardEmulFalse

\* the statuses login returns when the provider rejects the PIN, over every
\* initialisation state, session state and PIN
RejectedLoginStatus ==
    {vcard_emul_login(init, li, p, FALSE).ret :
         init \in BOOLEAN, li \in BOOLEAN, p \in Pins}

\* C24: rsaOperation returns ConditionNotSatisfied when the subsystem is
\* uninitialized, the key handle is null or the private key is not obtained;
\* a provider failure that ends the call is returned as the mapped status of
\* its error code, never as Success; every provider error code maps to a
\* non-success status, a code outside the table to the generic one; login
\* returns ConditionNotSatisfied whenever the provider rejects the PIN.
C24_NoFalseSuccess ==
    /\ RsaCalled =>
          /\ (~nss_emul_init \/ ~KeyAcquired) =>
                 rsa_ret = Returned(VCARD7816_STATUS_ERROR_CONDITION_NOT_SATISFIED)
          /\ FinalProviderFailure =>
                 /\ rsa_trace.error \in ProviderErrors
                 /\ rsa_ret = Returned(vcard_emul_map_error(rsa_trace.error))
                 /\ rsa_ret # Returned(VCARD7816_STATUS_SUCCESS)
    /\ \A e \in ProviderErrors :
          vcard_emul_map_error(e) # VCARD7816_STATUS_SUCCESS
    /\ vcard_emul_map_error("SEC_ERROR_LIBRARY_FAILURE")
           = VCARD7816_STATUS_EXC_ERROR_CHANGE
    /\ RejectedLoginStatus
           = {VCARD7816_STATUS_ERROR_CONDITION_NOT_SATISFIED}

\* PK11_Sign failed with a code outside the table
C24_Witness ==
    /\ "PK11_Sign" \in Range(rsa_trace.failed)
    /\ rsa_trace.error = "SEC_ERROR_LIBRARY_FAILURE"
    /\ rsa_ret = Returned(VCARD7816_STATUS_EXC_ERROR_CHANGE)

\* C25: when the raw decrypt fails on a key whose tri-state was SupportsRawOp
\* the mapped provider error is returned and neither the sign path nor the
\* PKCS #1 decrypt path is tried; when the tri-state was Unknown the call
\* goes on into the padding-emulation paths.
C25_RawFailure ==
    RawFailed =>
        /\ rsa_prev = VCardEmulFalse =>
               /\ rsa_trace.error \in ProviderErrors
               /\ rsa_ret = Returned(vcard_emul_map_error(rsa_trace.error))
               /\ ~EmulationTried
        /\ rsa_prev = VCardEmulUnknown => EmulationTried

\* a failed raw decrypt on a SupportsRawOp key
C25_Witness ==
    /\ RawFailed
    /\ rsa_prev = VCardEmulFalse
    /\ rsa_ret = Returned(VCARD7816_STATUS_ERROR_DATA_INVALID)
    /\ ~EmulationTried

\* the raw path was not used or has fallen through
EmulationReached ==
    /\ RsaReachedLengthCheck
    /\ Len(rsa_in) = SigLen
    /\ ~RsaTriedRaw \/ (RawFailed /\ rsa_prev = VCardEmulUnknown)

\* b is 00 01, a run of FF bytes, a 00 at position k, then the digest
SeparatorAt(b, k) ==
    /\ Len(b) >= 3
    /\ b[1] = 0
    /\ b[2] = 1
    /\ k \in 3..Len(b)
    /\ b[k] = 0
    /\ \A j \in 3..(k - 1) : b[j] = 255

SignShaped(b) == \E k \in 1..Len(b) : SeparatorAt(b, k)

\* C26: once the raw path is out of the way, rsaOperation takes the sign path
\* if and only if the buffer is 00 01, a run of FF bytes, one 00 separator
\* and the digest up to the end; it signs exactly the bytes after the
\* separator and, when the provider signs, writes the signature into the
\* buffer and sets the tri-state to RequiresPaddingEmulation.  Every other
\* buffer goes to the PKCS #1 decrypt.
C26_SignOrDecrypt ==
    EmulationReached =>
        /\ "PK11_Sign" \in Range(rsa_calls) <=> SignShaped(rsa_in)
        /\ "PK11_PrivDecryptPKCS1" \in Range(rsa_calls) <=> ~SignShaped(rsa_in)
        /\ "PK11_Sign" \in Range(rsa_calls) =>
               /\ \E k \in 1..Len(rsa_in) :
                     /\ SeparatorAt(rsa_in, k)
                     /\ rsa_trace.hash = <<SubSeq(rsa_in, k + 1, Len(rsa_in))>>
               /\ rsa_ret = Returned(VCARD7816_STATUS_SUCCESS) =>
                     /\ rsa_trace.out # <<>>
                     /\ buffer = rsa_trace.out[1]
                     /\ failedX509 = VCardEmulTrue

\* a signature block with a run of FF bytes was signed
C26_Witness ==
    /\ EmulationReached
    /\ rsa_in[3] = 255
    /\ "PK11_Sign" \in Range(rsa_calls)
    /\ Len(rsa_trace.hash[1]) = 1
    /\ rsa_ret = Returned(VCARD7816_STATUS_SUCCESS)
    /\ failedX509 = VCardEmulTrue
    /\ buffer = rsa_trace.out[1]

\* C31: whenever rsaOperation returns a status other than Success, the
\* caller's buffer holds exactly its input bytes and the key's tri-state flag
\* has the value it had before the call.
C31_FailureKeepsState ==
    (RsaCalled /\ rsa_ret # Returned(VCARD7816_STATUS_SUCCESS)) =>
        /\ buffer = rsa_in
        /\ failedX509 = rsa_prev

\* a failed raw attempt on an Unknown key followed by a failed PK11_Sign
C31_Witness ==
    /\ RsaCalled
    /\ rsa_ret # Returned(VCARD7816_STATUS_SUCCESS)
    /\ rsa_prev = VCardEmulUnknown
    /\ rsa_trace.failed = <<"PK11_PrivDecryptRaw", "PK11_Sign">>
    /\ buffer = rsa_in
    /\ failedX509 = VCardEmulUnknown

\* C33: isLoggedIn returns only 0 or 1, and 0 when the subsystem is
\* uninitialized.
C33_ZeroOrOne ==
    (last_op = "is_logged_in") =>
        /\ ili_ret[1] \in {0, 1}
        /\ ~nss_emul_init => ili_ret[1] = 0

\* C32: after initialization a reader's presence flag is true exactly when
\* the registry holds a card for the reader.
C32_PresentIffCard ==
    vcard_emul_init_called =>
        \A r \in 1..Len(readers) :
            readers[r].present <=> vreader_card_is_present(World, r)

\* the last operation mirrored the slot and handed the result to the registry
\* as its last call, for the reader of the event
MirroredAndInserted ==
    LET n == Len(registry_log) IN
    /\ n >= 2
    /\ registry_log[n - 1].call = "vcard_emul_mirror_card"
    /\ registry_log[n - 1].reader = hp_last.reader
    /\ registry_log[n].call = "vreader_insert_card"
    /\ registry_log[n].reader = hp_last.reader
    /\ registry_log[n].card = registry_log[n - 1].card
    /\ readers[hp_last.reader].card = registry_log[n].card

\* a reader's stored series leaves 0 only in a present event of that reader
SeriesZeroUntilPresent ==
    \A r \in 1..Len(readers) :
        (readers[r].series = 0 /\ readers'[r].series # 0) =>
            /\ hp_last'.op = "event"
            /\ hp_last'.reader = r
            /\ hp_last'.is_present

ArraysAfter(n) == MirrorFill(slot_objects, SubSeq(enum_order, 1, n), NoArrays)

\* the readable objects among the first n of the enumeration
ReadableAmong(n) ==
    {enum_order[j] : j \in {j \in 1..n : slot_objects[enum_order[j]].readable}}

\* entry i of the four arrays comes from the object k
EntryOf(arrays, i, k) ==
    /\ arrays.certs[i] = slot_objects[k].der
    /\ arrays.cert_len[i] = Len(slot_objects[k].der)
    /\ arrays.keys[i] = vcard_emul_make_key(slot_objects[k].der)
    /\ arrays.ids[i] = slot_objects[k].id

\* C35: after every insertion of the fill loop the four arrays have the
\* same count, entry i of each comes from the same certificate object, and
\* every readable object handled so far has exactly one entry.
C35_ArraysAligned ==
    (mirrored.called /\ mirrored.passed) =>
        /\ mirrored.args = ArraysAfter(Len(enum_order))
        /\ \A n \in 0..Len(enum_order) :
              LET a == ArraysAfter(n)
                  count == Cardinality(ReadableAmong(n))
              IN  /\ Len(a.certs) = count
                  /\ Len(a.cert_len) = count
                  /\ Len(a.keys) = count
                  /\ Len(a.ids) = count
                  /\ \A i \in 1..count :
                        \E k \in ReadableAmong(n) : EntryOf(a, i, k)
                  /\ \A k \in ReadableAmong(n) :
                        Cardinality({i \in 1..count : EntryOf(a, i, k)}) = 1

\* three readable objects enumerated in descending order of identifier:
\* every insertion moves the entries stored before it
C35_Witness ==
    /\ mirrored.called /\ mirrored.passed
    /\ Len(enum_order) = 3
    /\ Cardinality(ReadableObjects) = 3
    /\ EnumeratedIds = <<<<67>>, <<66>>, <<65>>>>
    /\ \A i \in 1..3 : EntryOf(mirrored.args, i, enum_order[4 - i])

====
